---- MODULE Spec2Model ----
(***************************************************************************)
(* Model of the debug-print wrapping tools of focusmate-ios:               *)
(*   src/wrap_prints.py        (process_file, main)                        *)
(*   src/wrap_debug_prints.py  (process_swift_file, main)                  *)
(*                                                                         *)
(* A text is a sequence of tokens.  A token is either a single character   *)
(* (" ", tab, newline) or one of the substrings the programs search for    *)
(* ("print(", "//", "#if DEBUG", "#endif", the production patterns), or an *)
(* opaque piece of other text ("a").  A file's content is one text; the    *)
(* programs split it into lines and join the lines again, and the model    *)
(* does the same.                                                          *)
(***************************************************************************)
EXTENDS Integers, Sequences, FiniteSets, TLC

VARIABLES
    tool,        \* which script runs: "wrap_prints" or "wrap_debug_prints"
    fs,          \* the files under focusmate/Focusmate: path -> content (a text)
    orig,        \* fs as it was before the first run
    hist,        \* unit level: contents of UnitPath before run 1, after run 1, ...
    rets,        \* unit level: return value of each run
    opened,      \* unit level: whether each run opened the file for writing
    produced,    \* unit level: the transformed content each run computed
    tags,        \* unit level: per run, the branch of the loop taken for each input line
    exists,      \* main: focusmate_dir.exists()
    fault,       \* main: path -> "none", or "read" if open(filepath, 'r') raises,
                 \*       or "write" if open(filepath, 'w') raises
    pc,          \* main: "unit" | "start" | "loop" | "done" | "crashed"
    swift_files, \* main: the list rglob returned
    done,        \* main: number of loop iterations finished
    modified_files, \* main: modified_files (wrap_prints), the files counted in
                    \* modified_count (wrap_debug_prints)
    out,         \* main: what was printed
    io,          \* main: the files opened so far, in order: [op, path]
    pending      \* stepwise process_file: new_lines held in memory until written

unitVars == <<hist, rets, opened, produced, tags>>
envVars == <<tool, orig, exists, fault>>
mainVars == <<pc, swift_files, done, modified_files, out, io>>
vars == <<fs, unitVars, envVars, pending, mainVars, pending>>

-----------------------------------------------------------------------------
(* Bounds of the model *)

MaxLen == 3
MaxLongLen == 7
MaxRuns == 2
NumFiles == 2

-----------------------------------------------------------------------------
(* Text helpers: Python's str and list operations on token sequences *)

NL == "\n"
TAB == "\t"
SP == " "
PRINT == "print("
COMMENT == "//"
GUARD_OPEN == "#if DEBUG"
GUARD_CLOSE == "#endif"

Whitespace == {SP, TAB, NL}

Min(a, b) == IF a < b THEN a ELSE b
Max(a, b) == IF a > b THEN a ELSE b

\* range(a, b): the integers a, a+1, ..., b-1
Range(a, b) == a .. (b - 1)

\* lines[i] with Python's 0-based index
At(lines, i) == lines[i + 1]

\* pattern in line
Contains(line, tok) == \E k \in DOMAIN line : line[k] = tok

RECURSIVE lstrip(_)
lstrip(s) ==
    IF s # <<>> /\ Head(s) \in Whitespace THEN lstrip(Tail(s)) ELSE s

RECURSIVE rstrip(_)
rstrip(s) ==
    IF s # <<>> /\ s[Len(s)] \in Whitespace
    THEN rstrip(SubSeq(s, 1, Len(s) - 1))
    ELSE s

strip(s) == rstrip(lstrip(s))

startswith(s, tok) == s # <<>> /\ Head(s) = tok

\* ' ' * n
Spaces(n) == [k \in 1 .. n |-> SP]

\* ''.join(lines), which is what f.writelines(lines) writes
RECURSIVE writelines(_)
writelines(lines) ==
    IF lines = <<>> THEN <<>> ELSE Head(lines) \o writelines(Tail(lines))

\* f.readlines(): the content cut after every newline, newlines kept; a last
\* piece without a newline is a line too
RECURSIVE SplitKeep(_, _, _)
SplitKeep(content, cur, acc) ==
    IF content = <<>>
    THEN IF cur = <<>> THEN acc ELSE Append(acc, cur)
    ELSE IF Head(content) = NL
         THEN SplitKeep(Tail(content), <<>>, Append(acc, Append(cur, NL)))
         ELSE SplitKeep(Tail(content), Append(cur, Head(content)), acc)

readlines(content) == SplitKeep(content, <<>>, <<>>)

\* content.split('\n'): the pieces between newlines, newlines dropped; always
\* at least one piece
RECURSIVE SplitDrop(_, _, _)
SplitDrop(content, cur, acc) ==
    IF content = <<>>
    THEN Append(acc, cur)
    ELSE IF Head(content) = NL
         THEN SplitDrop(Tail(content), <<>>, Append(acc, cur))
         ELSE SplitDrop(Tail(content), Append(cur, Head(content)), acc)

split_nl(content) == SplitDrop(content, <<>>, <<>>)

\* '\n'.join(lines)
RECURSIVE join_nl(_)
join_nl(lines) ==
    IF lines = <<>> THEN <<>>
    ELSE IF Len(lines) = 1 THEN Head(lines)
    ELSE Head(lines) \o <<NL>> \o join_nl(Tail(lines))

-----------------------------------------------------------------------------
(* src/wrap_prints.py *)

\* "X ERROR" stands for the third pattern, a cross-mark emoji followed by " ERROR"
PRODUCTION_PATTERNS == <<"CRITICAL", "FATAL", "X ERROR", "App will not function">>

\* faulty variant: the loop returns after looking at the first pattern only
should_keep_first_pattern_only(line) == Contains(line, PRODUCTION_PATTERNS[1])

should_keep_in_production(line) ==
    \E p \in DOMAIN PRODUCTION_PATTERNS : Contains(line, PRODUCTION_PATTERNS[p])

\* faulty variant: the search for #endif starts one line too late
is_already_wrapped_skips_next(lines, index) ==
    \E i \in Range(Max(0, index - 5), index) :
        /\ Contains(At(lines, i), GUARD_OPEN)
        /\ \E j \in Range(index + 2, Min(Len(lines), index + 5)) :
               Contains(At(lines, j), GUARD_CLOSE)

is_already_wrapped(lines, index) ==
    \E i \in Range(Max(0, index - 5), index) :
        /\ Contains(At(lines, i), GUARD_OPEN)
        /\ \E j \in Range(index + 1, Min(Len(lines), index + 5)) :
               Contains(At(lines, j), GUARD_CLOSE)

\* faulty variant: the comment test without strip()
HasPrint_NoStrip(line) == Contains(line, PRINT) /\ ~startswith(line, COMMENT)

\* line 50: the line has a print statement and is not a comment
HasPrint(line) == Contains(line, PRINT) /\ ~startswith(strip(line), COMMENT)

\* faulty variant: a print is kept only if it is both already wrapped and
\* exempt
Branch_AndNotOr(lines, i) ==
    IF HasPrint(At(lines, i))
    THEN IF is_already_wrapped(lines, i) /\ should_keep_in_production(At(lines, i))
         THEN "kept"
         ELSE "wrapped"
    ELSE "plain"

\* lines 50-70: which branch the loop body takes for lines[i]
Branch(lines, i) ==
    IF HasPrint(At(lines, i))
    THEN IF is_already_wrapped(lines, i) \/ should_keep_in_production(At(lines, i))
         THEN "kept"
         ELSE "wrapped"
    ELSE "plain"

\* lines 58-64: the three lines appended for a print that gets wrapped
WrapLines(line) ==
    LET indent == Len(line) - Len(lstrip(line))
        spaces == Spaces(indent)
    IN  << spaces \o <<GUARD_OPEN, NL>>, line, spaces \o <<GUARD_CLOSE, NL>> >>

\* faulty variant: line 69 missing, a line without a print is not appended
Appended_SkipsPlain(lines, i) ==
    IF Branch(lines, i) = "wrapped" THEN WrapLines(At(lines, i))
    ELSE IF Branch(lines, i) = "kept" THEN <<At(lines, i)>>
    ELSE <<>>

\* what one iteration of the loop appends to new_lines
Appended(lines, i) ==
    IF Branch(lines, i) = "wrapped" THEN WrapLines(At(lines, i)) ELSE <<At(lines, i)>>

\* lines 46-70: new_lines after the iterations i, i+1, ..., len(lines)-1
RECURSIVE NewLinesFrom(_, _)
NewLinesFrom(lines, i) ==
    IF i < Len(lines)
    THEN Appended(lines, i) \o NewLinesFrom(lines, i + 1)
    ELSE <<>>

\* faulty variant: modified set for every print, before the test of line 52
Modified_SetEarly(lines) == \E i \in Range(0, Len(lines)) : Branch(lines, i) # "plain"

\* the modified flag after the loop (line 65)
Modified(lines) == \E i \in Range(0, Len(lines)) : Branch(lines, i) = "wrapped"

\* process_file(filepath) on a file holding `content`: the content left in the
\* file, the return value, whether the file was opened for writing, and the
\* branch taken for each line
process_file(content) ==
    LET lines == readlines(content)
        new_lines == NewLinesFrom(lines, 0)
        modified == Modified(lines)
    IN  [ content |-> IF modified THEN writelines(new_lines) ELSE content,
          ret |-> modified,
          opened |-> modified,
          produced |-> writelines(new_lines),
          tags |-> [k \in 1 .. Len(lines) |-> Branch(lines, k - 1)] ]

-----------------------------------------------------------------------------
(* src/wrap_debug_prints.py *)

\* faulty variant: the look at the previous line starts one line too late
\* (i > 1), so a triple at the very start of the file is not recognised
SwiftWraps_SkipsSecondLine(lines, i) ==
    LET line == At(lines, i)
        stripped == strip(line)
        already_wrapped == i > 1 /\ Contains(At(lines, i - 1), GUARD_OPEN)
    IN  /\ Contains(line, PRINT)
        /\ ~startswith(stripped, COMMENT)
        /\ ~already_wrapped

\* lines 25-31: the print on lines[i] is to be wrapped
SwiftWraps(lines, i) ==
    LET line == At(lines, i)
        stripped == strip(line)
        already_wrapped == i > 0 /\ Contains(At(lines, i - 1), GUARD_OPEN)
    IN  /\ Contains(line, PRINT)
        /\ ~startswith(stripped, COMMENT)
        /\ ~already_wrapped

\* faulty variant: the markers are put at the start of the line, without the
\* print's indentation
SwiftWrapLines_NoIndent(line) == << <<GUARD_OPEN>>, line, <<GUARD_CLOSE>> >>

\* lines 32-38: the three lines appended for a print that gets wrapped
SwiftWrapLines(line) ==
    LET indent == Len(line) - Len(lstrip(line))
        indent_str == Spaces(indent)
    IN  << indent_str \o <<GUARD_OPEN>>, line, indent_str \o <<GUARD_CLOSE>> >>

\* lines 20-43: new_lines after the iterations i, i+1, ..., len(lines)-1
RECURSIVE SwiftNewLinesFrom(_, _)
SwiftNewLinesFrom(lines, i) ==
    IF i < Len(lines)
    THEN (IF SwiftWraps(lines, i) THEN SwiftWrapLines(At(lines, i)) ELSE <<At(lines, i)>>)
         \o SwiftNewLinesFrom(lines, i + 1)
    ELSE <<>>

\* process_swift_file(filepath) on a file holding `content`
process_swift_file(content) ==
    LET original_content == content
        lines == split_nl(content)
        new_content == join_nl(SwiftNewLinesFrom(lines, 0))
        changed == new_content # original_content
    IN  [ content |-> IF changed THEN new_content ELSE content,
          ret |-> changed,
          opened |-> changed,
          produced |-> new_content,
          tags |-> [k \in 1 .. Len(lines) |->
                       IF SwiftWraps(lines, k - 1) THEN "wrapped"
                       ELSE IF Contains(lines[k], PRINT)
                               /\ ~startswith(strip(lines[k]), COMMENT)
                            THEN "kept" ELSE "plain"] ]

-----------------------------------------------------------------------------
(* Inputs *)

UnitPath == 1

\* line texts (without their newline) short files are built from
LineTexts ==
    { <<"a">>,
      <<PRINT>>,
      <<SP, TAB, PRINT>>,
      <<SP, COMMENT, PRINT>>,
      <<PRINT, COMMENT>>,
      <<PRINT, "CRITICAL">>,
      <<SP, PRINT, "App will not function">>,
      <<PRINT, GUARD_OPEN>>,
      <<GUARD_OPEN>>,
      <<SP, GUARD_CLOSE>> }

\* line texts long files are built from
CoreTexts == { <<PRINT>>, <<GUARD_OPEN>>, <<GUARD_CLOSE>> }

SeqsUpTo(S, n) == UNION { [1 .. k -> S] : k \in 0 .. n }

WithNL(ls) == [k \in DOMAIN ls |-> Append(ls[k], NL)]

\* every line newline-terminated
Terminated(ls) == writelines(WithNL(ls))

\* the same, the last line without its newline
Unterminated(ls) == SubSeq(Terminated(ls), 1, Len(Terminated(ls)) - 1)

Inputs ==
    { Terminated(ls) : ls \in SeqsUpTo(LineTexts, MaxLen) }
    \cup { Unterminated(ls) : ls \in SeqsUpTo(LineTexts, MaxLen) \ {<<>>} }
    \cup { Terminated(ls) : ls \in SeqsUpTo(CoreTexts, MaxLongLen) }

-----------------------------------------------------------------------------
(* Unit level: one of the two functions is run on one file again and again *)

Tools == {"wrap_prints", "wrap_debug_prints"}

Init ==
    /\ tool \in Tools
    /\ \E c \in Inputs : fs = (UnitPath :> c)
    /\ orig = fs
    /\ hist = <<fs[UnitPath]>>
    /\ rets = <<>>
    /\ opened = <<>>
    /\ produced = <<>>
    /\ tags = <<>>
    /\ exists = TRUE
    /\ fault = (UnitPath :> "none")
    /\ pc = "unit"
    /\ swift_files = <<>>
    /\ done = 0
    /\ modified_files = <<>>
    /\ out = <<>>
    /\ io = <<>>
    /\ pending = <<>>

\* one call of the function, the file readable and writable
Call(r) ==
    /\ fs' = [fs EXCEPT ![UnitPath] = r.content]
    /\ hist' = Append(hist, r.content)
    /\ rets' = Append(rets, r.ret)
    /\ opened' = Append(opened, r.opened)
    /\ produced' = Append(produced, r.produced)
    /\ tags' = Append(tags, r.tags)
    /\ UNCHANGED <<envVars, mainVars, pending>>

ProcessFile ==
    /\ pc = "unit"
    /\ tool = "wrap_prints"
    /\ Len(rets) < MaxRuns
    /\ Call(process_file(fs[UnitPath]))

ProcessSwiftFile ==
    /\ pc = "unit"
    /\ tool = "wrap_debug_prints"
    /\ Len(rets) < MaxRuns
    /\ Call(process_swift_file(fs[UnitPath]))

Next == ProcessFile \/ ProcessSwiftFile

Spec == Init /\ [][Next]_vars

-----------------------------------------------------------------------------
(* Main level: one run of a script's main() over the files under the root *)

Paths == 1 .. NumFiles

\* the contents the files of a main-level run are drawn from
MainContents ==
    { Terminated(<< <<"a">> >>),
      Terminated(<< <<"a">>, <<SP, PRINT>> >>),
      Terminated(<< <<GUARD_OPEN>>, <<PRINT>>, <<GUARD_CLOSE>>, <<PRINT, "FATAL">> >>) }

Faults == {"none", "read", "write"}

\* the orders in which rglob may list the files S
Orders(S) ==
    { s \in [1 .. Cardinality(S) -> S] : \A p \in S : \E i \in DOMAIN s : s[i] = p }

InitMain ==
    /\ tool \in Tools
    /\ exists \in BOOLEAN
    /\ fs \in IF exists
              THEN UNION { [1 .. n -> MainContents] : n \in 0 .. NumFiles }
              ELSE { <<>> }
    /\ orig = fs
    /\ fault \in [DOMAIN fs -> Faults]
    /\ hist = <<>>
    /\ rets = <<>>
    /\ opened = <<>>
    /\ produced = <<>>
    /\ tags = <<>>
    /\ pc = "start"
    /\ swift_files = <<>>
    /\ done = 0
    /\ modified_files = <<>>
    /\ out = <<>>
    /\ io = <<>>
    /\ pending = <<>>

\* a call fn(filepath) inside main: whether it raised, its return value, the
\* content it left in the file and the files it opened
Attempt(r, filepath) ==
    IF fault[filepath] = "read"
    THEN [ raised |-> TRUE, ret |-> FALSE, content |-> fs[filepath], io |-> <<>> ]
    ELSE IF r.opened /\ fault[filepath] = "write"
    THEN [ raised |-> TRUE, ret |-> FALSE, content |-> fs[filepath],
           io |-> << [op |-> "read", path |-> filepath] >> ]
    ELSE [ raised |-> FALSE, ret |-> r.ret, content |-> r.content,
           io |-> << [op |-> "read", path |-> filepath] >>
                  \o IF r.opened THEN << [op |-> "write", path |-> filepath] >>
                     ELSE <<>> ]

\* wrap_prints.main, lines 82-84
WP_NotFound ==
    /\ tool = "wrap_prints" /\ pc = "start"
    /\ ~exists
    /\ out' = Append(out, [msg |-> "not found"])
    /\ pc' = "done"
    /\ UNCHANGED <<fs, unitVars, envVars, pending, swift_files, done, modified_files, io>>

\* faulty variant: main goes on after line 83 (no return)
WP_Discover_NoReturn ==
    /\ tool = "wrap_prints" /\ pc = "start"
    /\ swift_files' \in Orders(DOMAIN fs)
    /\ modified_files' = <<>>
    /\ out' = (IF exists THEN out ELSE Append(out, [msg |-> "not found"]))
                  \o << [msg |-> "processing", n |-> Len(swift_files')] >>
    /\ pc' = "loop"
    /\ UNCHANGED <<fs, unitVars, envVars, pending, done, io>>

\* wrap_prints.main, lines 86-89
WP_Discover ==
    /\ tool = "wrap_prints" /\ pc = "start"
    /\ exists
    /\ swift_files' \in Orders(DOMAIN fs)
    /\ modified_files' = <<>>
    /\ out' = Append(out, [msg |-> "processing", n |-> Len(swift_files')])
    /\ pc' = "loop"
    /\ UNCHANGED <<fs, unitVars, envVars, pending, done, io>>

\* faulty variant: the modified flag is shared by all files, so once a file was
\* modified every later file is written and reported too
WP_Iterate_SharedFlag ==
    /\ tool = "wrap_prints" /\ pc = "loop"
    /\ done < Len(swift_files)
    /\ LET filepath == swift_files[done + 1]
           a == Attempt(process_file(fs[filepath]), filepath)
       IN  /\ fs' = [fs EXCEPT ![filepath] = a.content]
           /\ io' = io \o a.io
           /\ IF a.raised
              THEN /\ out' = Append(out, [msg |-> "error", path |-> filepath])
                   /\ UNCHANGED modified_files
              ELSE IF a.ret \/ modified_files # <<>>
              THEN /\ modified_files' = Append(modified_files, filepath)
                   /\ out' = Append(out, [msg |-> "modified", path |-> filepath])
              ELSE UNCHANGED <<modified_files, out>>
    /\ done' = done + 1
    /\ UNCHANGED <<unitVars, envVars, pending, pc, swift_files>>

\* wrap_prints.main, lines 91-97: one iteration of the loop
WP_Iterate ==
    /\ tool = "wrap_prints" /\ pc = "loop"
    /\ done < Len(swift_files)
    /\ LET filepath == swift_files[done + 1]
           a == Attempt(process_file(fs[filepath]), filepath)
       IN  /\ fs' = [fs EXCEPT ![filepath] = a.content]
           /\ io' = io \o a.io
           /\ IF a.raised
              THEN /\ out' = Append(out, [msg |-> "error", path |-> filepath])
                   /\ UNCHANGED modified_files
              ELSE IF a.ret
              THEN /\ modified_files' = Append(modified_files, filepath)
                   /\ out' = Append(out, [msg |-> "modified", path |-> filepath])
              ELSE UNCHANGED <<modified_files, out>>
    /\ done' = done + 1
    /\ UNCHANGED <<unitVars, envVars, pending, pc, swift_files>>

\* wrap_prints.main, lines 99-100
WP_Summary ==
    /\ tool = "wrap_prints" /\ pc = "loop"
    /\ done = Len(swift_files)
    /\ out' = out \o << [msg |-> "summary", n |-> Len(modified_files)],
                        [msg |-> "wrapped", n |-> Len(modified_files) * 3] >>
    /\ pc' = "done"
    /\ UNCHANGED <<fs, unitVars, envVars, pending, swift_files, done, modified_files, io>>

\* wrap_debug_prints.main, lines 58-60
WD_NotFound ==
    /\ tool = "wrap_debug_prints" /\ pc = "start"
    /\ ~exists
    /\ out' = Append(out, [msg |-> "not found"])
    /\ pc' = "done"
    /\ UNCHANGED <<fs, unitVars, envVars, pending, swift_files, done, modified_files, io>>

\* wrap_debug_prints.main, lines 62-66
WD_Discover ==
    /\ tool = "wrap_debug_prints" /\ pc = "start"
    /\ exists
    /\ swift_files' \in Orders(DOMAIN fs)
    /\ modified_files' = <<>>
    /\ out' = out \o << [msg |-> "found", n |-> Len(swift_files')],
                        [msg |-> "wrapping"] >>
    /\ pc' = "loop"
    /\ UNCHANGED <<fs, unitVars, envVars, pending, done, io>>

\* wrap_debug_prints.main, lines 68-71: one iteration of the loop; there is no
\* try, so an exception leaves main
WD_Iterate ==
    /\ tool = "wrap_debug_prints" /\ pc = "loop"
    /\ done < Len(swift_files)
    /\ LET filepath == swift_files[done + 1]
           a == Attempt(process_swift_file(fs[filepath]), filepath)
       IN  /\ fs' = [fs EXCEPT ![filepath] = a.content]
           /\ io' = io \o a.io
           /\ IF a.raised
              THEN /\ out' = Append(out, [msg |-> "traceback", path |-> filepath])
                   /\ pc' = "crashed"
                   /\ UNCHANGED <<modified_files, done>>
              ELSE /\ IF a.ret
                      THEN /\ modified_files' = Append(modified_files, filepath)
                           /\ out' = Append(out, [msg |-> "modified", path |-> filepath])
                      ELSE UNCHANGED <<modified_files, out>>
                   /\ done' = done + 1
                   /\ UNCHANGED pc
    /\ UNCHANGED <<unitVars, envVars, pending, swift_files>>

\* wrap_debug_prints.main, line 73
WD_Summary ==
    /\ tool = "wrap_debug_prints" /\ pc = "loop"
    /\ done = Len(swift_files)
    /\ out' = Append(out, [msg |-> "summary", n |-> Len(modified_files)])
    /\ pc' = "done"
    /\ UNCHANGED <<fs, unitVars, envVars, pending, swift_files, done, modified_files, io>>

NextMain ==
    \/ WP_NotFound \/ WP_Discover \/ WP_Iterate \/ WP_Summary
    \/ WD_NotFound \/ WD_Discover \/ WD_Iterate \/ WD_Summary

SpecMain == InitMain /\ [][NextMain]_vars

-----------------------------------------------------------------------------
(* Main level, stepwise: wrap_prints.main with process_file taken one file
   operation at a time, and the run open to interruption between operations *)

InitInterrupt == InitMain /\ tool = "wrap_prints"

CurrentFile == swift_files[done + 1]

\* process_file lines 39-70, then line 72 or 77; main lines 93 and 96-97 when
\* reading fails or nothing is to be written
WS_Read ==
    /\ tool = "wrap_prints" /\ pc = "loop"
    /\ done < Len(swift_files)
    /\ LET filepath == CurrentFile
           r == process_file(fs[filepath])
       IN  IF fault[filepath] = "read"
           THEN /\ out' = Append(out, [msg |-> "error", path |-> filepath])
                /\ done' = done + 1
                /\ UNCHANGED <<pc, pending, io>>
           ELSE /\ io' = Append(io, [op |-> "read", path |-> filepath])
                /\ IF r.opened
                   THEN /\ pending' = r.produced
                        /\ pc' = "write"
                        /\ UNCHANGED <<done, out>>
                   ELSE /\ done' = done + 1
                        /\ UNCHANGED <<pc, pending, out>>
    /\ UNCHANGED <<fs, unitVars, envVars, swift_files, modified_files>>

\* process_file line 73: open(filepath, 'w') empties the file, or raises
WS_Open ==
    /\ tool = "wrap_prints" /\ pc = "write"
    /\ LET filepath == CurrentFile
       IN  IF fault[filepath] = "write"
           THEN /\ out' = Append(out, [msg |-> "error", path |-> filepath])
                /\ done' = done + 1
                /\ pending' = <<>>
                /\ pc' = "loop"
                /\ UNCHANGED <<fs, io>>
           ELSE /\ fs' = [fs EXCEPT ![filepath] = <<>>]
                /\ io' = Append(io, [op |-> "write", path |-> filepath])
                /\ pc' = "writing"
                /\ UNCHANGED <<out, done, pending>>
    /\ UNCHANGED <<unitVars, envVars, swift_files, modified_files>>

\* process_file lines 74-75 and main lines 94-95: the new lines reach the
\* file, process_file returns True
WS_Write ==
    /\ tool = "wrap_prints" /\ pc = "writing"
    /\ LET filepath == CurrentFile
       IN  /\ fs' = [fs EXCEPT ![filepath] = pending]
           /\ modified_files' = Append(modified_files, filepath)
           /\ out' = Append(out, [msg |-> "modified", path |-> filepath])
    /\ pending' = <<>>
    /\ done' = done + 1
    /\ pc' = "loop"
    /\ UNCHANGED <<unitVars, envVars, swift_files, io>>

\* the run is stopped from outside (a signal, Ctrl-C): main's except Exception
\* does not catch it
Interrupt ==
    /\ pc \in {"start", "loop", "write", "writing"}
    /\ pc' = "interrupted"
    /\ UNCHANGED <<fs, unitVars, envVars, pending, swift_files, done,
                   modified_files, out, io>>

NextInterrupt ==
    \/ WP_NotFound \/ WP_Discover \/ WS_Read \/ WS_Open \/ WS_Write
    \/ WP_Summary \/ Interrupt

SpecInterrupt == InitInterrupt /\ [][NextInterrupt]_vars

-----------------------------------------------------------------------------
(* Vocabulary of the properties, stated on the text of the files *)

\* the lines of a content
LinesOf(content) == readlines(content)

\* the first token of a line that is not whitespace ("" if there is none)
FirstNonBlank(line) ==
    LET I == { i \in DOMAIN line : line[i] \notin {SP, TAB, NL} }
    IN  IF I = {} THEN "" ELSE line[CHOOSE i \in I : \A j \in I : i <= j]

\* the count of leading whitespace of a line that is not blank
IndentOf(line) ==
    LET I == { i \in DOMAIN line : line[i] \notin {SP, TAB, NL} }
    IN  (CHOOSE i \in I : \A j \in I : i <= j) - 1

MentionsPrint(line) == \E i \in DOMAIN line : line[i] = "print("

IsCommentLine(line) == FirstNonBlank(line) = "//"

IsDiagnostic(line) == MentionsPrint(line) /\ ~IsCommentLine(line)

ExemptionPatterns == {"CRITICAL", "FATAL", "X ERROR", "App will not function"}

IsExempt(line) == \E i \in DOMAIN line : line[i] \in ExemptionPatterns

OpenGuard(n) == [i \in 1 .. n |-> " "] \o <<"#if DEBUG", "\n">>
CloseGuard(n) == [i \in 1 .. n |-> " "] \o <<"#endif", "\n">>

\* a line that is nothing but a guard marker
IsMarkerLine(line) ==
    \E n \in 0 .. Len(line) : line = OpenGuard(n) \/ line = CloseGuard(n)

HasOpenText(line) == \E i \in DOMAIN line : line[i] = "#if DEBUG"
HasCloseText(line) == \E i \in DOMAIN line : line[i] = "#endif"

\* a is b with some elements left out
RECURSIVE IsSubseq(_, _)
IsSubseq(a, b) ==
    IF a = <<>> THEN TRUE
    ELSE IF b = <<>> THEN FALSE
    ELSE IF Head(a) = Head(b) THEN IsSubseq(Tail(a), Tail(b))
    ELSE IsSubseq(a, Tail(b))

\* b is a with guard marker lines inserted and nothing else changed
RECURSIVE OnlyInserts(_, _)
OnlyInserts(a, b) ==
    IF b = <<>> THEN a = <<>>
    ELSE \/ a # <<>> /\ Head(a) = Head(b) /\ OnlyInserts(Tail(a), Tail(b))
         \/ IsMarkerLine(Head(b)) /\ OnlyInserts(a, Tail(b))

\* the number of guard blocks open after the first n lines
RECURSIVE OpenBlocks(_, _)
OpenBlocks(lines, n) ==
    IF n = 0 THEN 0
    ELSE LET d == OpenBlocks(lines, n - 1)
         IN  IF HasOpenText(lines[n]) THEN d + 1
             ELSE IF HasCloseText(lines[n]) /\ d > 0 THEN d - 1
             ELSE d

\* the least number of blocks open at any point from line j on, cur being open
\* before line j and m the least so far
RECURSIVE LeastOpen(_, _, _, _)
LeastOpen(lines, j, cur, m) ==
    IF j > Len(lines) THEN m
    ELSE LET c == IF HasOpenText(lines[j]) THEN cur + 1
                  ELSE IF HasCloseText(lines[j]) /\ cur > 0 THEN cur - 1
                  ELSE cur
         IN  LeastOpen(lines, j + 1, c, IF c < m THEN c ELSE m)

\* the number of guard pairs (an open-guard before, its close-guard after) that
\* enclose line i
Enclosing(lines, i) ==
    LET d == OpenBlocks(lines, i - 1)
    IN  d - LeastOpen(lines, i + 1, d, d)

Nested(content) ==
    LET lines == LinesOf(content)
    IN  \E i \in DOMAIN lines : IsDiagnostic(lines[i]) /\ Enclosing(lines, i) > 1

\* the runs made so far
Runs == 1 .. Len(rets)

-----------------------------------------------------------------------------
(* C1: running wrap_prints.process_file on its own output changes nothing and
   writes nothing: the content after the second run is the content after the
   first, and the second run does not open the file for writing. *)
C1_Idempotent ==
    (tool = "wrap_prints" /\ Len(rets) >= 2)
        => (hist[3] = hist[2] /\ ~opened[2] /\ ~rets[2])

(* C2: wrap_prints.process_file never produces nesting: from an input in which
   no diagnostic line is enclosed by more than one guard pair, after any number
   of runs no diagnostic line is enclosed by more than one guard pair. *)
C2_NoNesting ==
    (tool = "wrap_prints" /\ ~Nested(hist[1]))
        => \A n \in DOMAIN hist : ~Nested(hist[n])

\* the lines the running tool cut the input of run n into
InLines(n) == IF tool = "wrap_prints" THEN readlines(hist[n]) ELSE split_nl(hist[n])

\* the number of lines before line i that run n wrapped
WrappedBefore(n, i) == Cardinality({ j \in 1 .. (i - 1) : tags[n][j] = "wrapped" })

\* where line i of the input of run n lands in the output if every wrapped
\* line before it became three lines
Landing(n, i) == i + 2 * WrappedBefore(n, i)

CountToken(content, tok) == Cardinality({ i \in DOMAIN content : content[i] = tok })

(* C3: wrap_prints.process_file never inserts a guard pair around a diagnostic
   line that contains an exemption pattern, on any run, whatever surrounds it:
   the loop never takes its wrapping branch for such a line, the line is in the
   output unchanged, and as many guard pairs enclose it there as did in the
   input. *)
C3_ExemptNeverWrapped ==
    tool = "wrap_prints" =>
        \A n \in Runs : \A i \in DOMAIN tags[n] :
            LET inl == LinesOf(hist[n])
                outl == LinesOf(hist[n + 1])
            IN  (IsDiagnostic(inl[i]) /\ IsExempt(inl[i])) =>
                    /\ tags[n][i] = "kept"
                    /\ outl[Landing(n, i)] = inl[i]
                    /\ Enclosing(outl, Landing(n, i)) = Enclosing(inl, i)

\* a run that wrapped some line left an exempt diagnostic next to it alone
C3_Witness ==
    /\ tool = "wrap_prints"
    /\ Len(rets) >= 1
    /\ \E i \in DOMAIN tags[1] :
           /\ IsExempt(LinesOf(hist[1])[i])
           /\ IsDiagnostic(LinesOf(hist[1])[i])
           /\ i > 1
           /\ tags[1][i - 1] = "wrapped"

\* the lines of a content that are neither diagnostics nor bare guard markers
OtherLines(content) ==
    SelectSeq(LinesOf(content), LAMBDA l : ~IsDiagnostic(l) /\ ~IsMarkerLine(l))

\* the lines of a content that are not diagnostics
PlainLines(content) == SelectSeq(LinesOf(content), LAMBDA l : ~IsDiagnostic(l))

(* C4: every run of wrap_prints.process_file keeps the non-diagnostic lines of
   its input, in order and with identical text: they are a subsequence of the
   output's lines, and apart from bare guard markers the output has the same
   non-diagnostic lines as the input. *)
C4_PlainPreserved ==
    tool = "wrap_prints" =>
        \A n \in Runs :
            /\ IsSubseq(PlainLines(hist[n]), LinesOf(hist[n + 1]))
            /\ OtherLines(hist[n + 1]) = OtherLines(hist[n])

\* a run wrapped a line that stands between two plain lines
C4_Witness ==
    /\ tool = "wrap_prints"
    /\ Len(rets) >= 1
    /\ \E i \in DOMAIN tags[1] :
           /\ tags[1][i] = "wrapped"
           /\ i > 1 /\ i < Len(tags[1])
           /\ tags[1][i - 1] = "plain" /\ tags[1][i + 1] = "plain"
           /\ ~IsMarkerLine(LinesOf(hist[1])[i + 1])

(* C5: the file wrap_prints.process_file leaves is its input with guard marker
   lines inserted and nothing else changed: every input line is still a whole
   line of the output, and every other output line is a bare guard marker. *)
C5_OnlyInserts ==
    tool = "wrap_prints" =>
        \A n \in Runs : OnlyInserts(LinesOf(hist[n]), LinesOf(hist[n + 1]))

(* C6: every line wrap_prints.process_file classifies Unwrapped becomes exactly
   three consecutive lines of the output: an open-guard at the line's
   indentation, the line itself, a close-guard at the same indentation; every
   other line stays one line. *)
C6_ThreeLines ==
    tool = "wrap_prints" =>
        \A n \in Runs :
            LET inl == LinesOf(hist[n])
                outl == LinesOf(hist[n + 1])
            IN  /\ Len(outl) = Len(inl) + 2 * WrappedBefore(n, Len(inl) + 1)
                /\ \A i \in DOMAIN inl :
                       IF tags[n][i] = "wrapped"
                       THEN /\ outl[Landing(n, i)] = OpenGuard(IndentOf(inl[i]))
                            /\ outl[Landing(n, i) + 1] = inl[i]
                            /\ outl[Landing(n, i) + 2] = CloseGuard(IndentOf(inl[i]))
                       ELSE outl[Landing(n, i)] = inl[i]

(* C7: a line that mentions print( but starts, after leading whitespace, with
   the comment marker is treated as plain and never wrapped; every other line
   that mentions print( is treated as a diagnostic call.  So a file whose only
   mentions of print( are in comment lines is left as it is, and in a file with
   no guard text and no exemption pattern every diagnostic gets an open-guard. *)
C7_CommentsArePlain ==
    \A n \in Runs :
        LET inl == InLines(n)
            diags == { i \in DOMAIN inl : IsDiagnostic(inl[i]) }
        IN  /\ \A i \in DOMAIN inl :
                   MentionsPrint(inl[i]) =>
                       (tags[n][i] = "plain" <=> IsCommentLine(inl[i]))
            /\ diags = {} => (hist[n + 1] = hist[n] /\ ~opened[n])
            /\ (\A i \in DOMAIN inl :
                    ~HasOpenText(inl[i]) /\ ~HasCloseText(inl[i]) /\ ~IsExempt(inl[i]))
                   => CountToken(hist[n + 1], "#if DEBUG") = Cardinality(diags)

\* a run met an indented comment mentioning print( and a print with a trailing
\* comment, and wrapped the second only
C7_Witness ==
    /\ Len(rets) >= 1
    /\ \E i, j \in DOMAIN tags[1] :
           /\ InLines(1)[i] = <<SP, COMMENT, PRINT, NL>>
           /\ tags[1][i] = "plain"
           /\ InLines(1)[j] = <<PRINT, COMMENT, NL>>
           /\ tags[1][j] = "wrapped"

(* C8: a run writes the file exactly when the transformed content differs from
   the original; then the new content replaces the file and the function
   returns True; otherwise the file is not opened for writing, keeps its
   content, and the function returns False (both functions). *)
C8_WriteIffChanged ==
    \A n \in Runs :
        /\ opened[n] <=> (produced[n] # hist[n])
        /\ rets[n] = opened[n]
        /\ hist[n + 1] = IF produced[n] # hist[n] THEN produced[n] ELSE hist[n]

\* a first run that wrote the file and returned True, a second that did neither
C8_Witness ==
    /\ Len(rets) >= 2
    /\ opened[1] /\ rets[1] /\ hist[2] # hist[1]
    /\ ~opened[2] /\ ~rets[2] /\ hist[3] = hist[2]

-----------------------------------------------------------------------------
(* Main-level properties *)

Printed(m) == \E i \in DOMAIN out : out[i] = m

Listed(seq, x) == \E i \in DOMAIN seq : seq[i] = x

(* C9: when the root directory does not exist, main prints the error and
   stops: it lists no file, opens no file for reading or writing, runs no
   iteration of its loop, and prints nothing else. *)
C9_MissingRootAborts ==
    ~exists =>
        /\ pc \in {"start", "done"}
        /\ swift_files = <<>> /\ done = 0 /\ modified_files = <<>>
        /\ io = <<>>
        /\ fs = orig
        /\ out = IF pc = "done" THEN << [msg |-> "not found"] >> ELSE <<>>

\* main has returned from a run whose root directory does not exist
C9_Witness == ~exists /\ pc = "done" /\ out # <<>>

\* what fn(filepath) does to the original content of p when nothing fails
Unfailed(p) ==
    IF tool = "wrap_prints" THEN process_file(orig[p]) ELSE process_swift_file(orig[p])

\* reading or writing p fails in this run
Fails(p) == fault[p] = "read" \/ (fault[p] = "write" /\ Unfailed(p).opened)

(* C10: a failure to read or write one file is caught and reported for that
   path and does not abort the batch: main never ends in an uncaught
   exception, and when it has returned every file that did not fail holds what
   processing it would have left and is listed as modified exactly when its
   processing returned True, while every failing file is reported and keeps
   its content. *)
C10_FailureIsolated ==
    /\ pc # "crashed"
    /\ (pc = "done" /\ exists) =>
           \A p \in DOMAIN fs :
               IF Fails(p)
               THEN /\ Printed([msg |-> "error", path |-> p])
                    /\ fs[p] = orig[p]
                    /\ ~Listed(modified_files, p)
               ELSE /\ fs[p] = Unfailed(p).content
                    /\ Listed(modified_files, p) <=> Unfailed(p).ret

\* the messages that make up a script's final summary
SummaryMsgs == {"summary", "wrapped"}

(* C11: whenever the root directory exists, main runs to completion and its
   last output is the final summary, whether or not files changed or failed,
   and the summary tells modified, unmodified and failed files apart: main
   never ends in an uncaught exception, and when it has ended its last output
   is the summary, which, if there were files, carries the three counts. *)
C11_SummaryAlways ==
    exists =>
        /\ pc # "crashed"
        /\ pc = "done" =>
               /\ out # <<>> /\ out[Len(out)].msg \in SummaryMsgs
               /\ swift_files # <<>> =>
                      \E i \in DOMAIN out :
                          /\ out[i].msg = "summary"
                          /\ {"modified", "unmodified", "failed"} \subseteq DOMAIN out[i]

\* the content process_file computes for the original content of p
Transformed(p) == process_file(orig[p]).produced

(* C12: if a run is interrupted at any point, every file holds either exactly
   its original content or exactly its complete transformed content, never a
   truncated or partial one, and the files not yet reached are untouched. *)
C12_InterruptSafe ==
    pc = "interrupted" =>
        /\ \A p \in DOMAIN fs : fs[p] = orig[p] \/ fs[p] = Transformed(p)
        /\ \A i \in DOMAIN swift_files :
               i > done + 1 => fs[swift_files[i]] = orig[swift_files[i]]

\* line i stands between a bare open-guard and a bare close-guard
InTriple(lines, i) ==
    /\ i > 1 /\ IsMarkerLine(lines[i - 1]) /\ HasOpenText(lines[i - 1])
    /\ i < Len(lines) /\ IsMarkerLine(lines[i + 1]) /\ HasCloseText(lines[i + 1])

\* the number of non-exempt diagnostics of a content that are not in a triple
Unsettled(content) ==
    LET lines == LinesOf(content)
    IN  Cardinality({ i \in DOMAIN lines :
            IsDiagnostic(lines[i]) /\ ~IsExempt(lines[i]) /\ ~InTriple(lines, i) })

\* a measure of the work left: it is a natural number
WorkLeft(content) ==
    2 * Unsettled(content)
        + (IF content # <<>> /\ content[Len(content)] # "\n" THEN 1 ELSE 0)

(* C13: re-running wrap_prints.process_file on its own output converges: every
   run that writes strictly lowers a natural-number measure of the content, so
   only finitely many runs write; a run that does not write leaves the
   content as it is, and no later run writes either. *)
C13_Converges ==
    tool = "wrap_prints" =>
        \A n \in Runs :
            /\ rets[n] => WorkLeft(hist[n + 1]) < WorkLeft(hist[n])
            /\ ~rets[n] => (hist[n + 1] = hist[n] /\ ~opened[n])
            /\ (~rets[n] /\ n + 1 \in Runs) => ~rets[n + 1]

\* two runs in a row wrote, the third run's input is reached
C13_Witness ==
    /\ tool = "wrap_prints"
    /\ Len(rets) >= 2
    /\ rets[1] /\ rets[2]
    /\ WorkLeft(hist[3]) < WorkLeft(hist[2])

\* the files listed in a sequence
Members(seq) == { seq[i] : i \in DOMAIN seq }

(* C14: what wrap_prints.main leaves in each file, and which files it reports
   modified, depends only on that file's own original content (and on whether
   that file can be read and written), not on the order in which the files are
   listed nor on the other files: whatever the order, every file ends with the
   transform of its own content and the modified files are exactly those whose
   own transform wrote. *)
C14_OrderIndependent ==
    (tool = "wrap_prints" /\ pc = "done" /\ exists) =>
        /\ \A p \in DOMAIN fs :
               fs[p] = IF Fails(p) THEN orig[p] ELSE process_file(orig[p]).content
        /\ Members(modified_files)
               = { p \in DOMAIN fs : ~Fails(p) /\ process_file(orig[p]).ret }
        /\ Len(modified_files) = Cardinality(Members(modified_files))

\* a finished run that listed the second file first, changed one file and left
\* the other as it was
C14_Witness ==
    /\ tool = "wrap_prints" /\ pc = "done"
    /\ Len(swift_files) = 2 /\ swift_files[1] > swift_files[2]
    /\ Len(modified_files) = 1
    /\ \A p \in DOMAIN fault : fault[p] = "none"

\* the window size W of the specification's Wrapped rule
W == 5

\* no diagnostic line strictly between lines a and b
NoDiagnosticBetween(lines, a, b) ==
    \A j \in (a + 1) .. (b - 1) : ~IsDiagnostic(lines[j])

\* run n took line i, a diagnostic without exemption pattern, for Wrapped: it
\* neither wrapped it nor had an exemption to keep it for
TakenForWrapped(n, i) ==
    /\ IsDiagnostic(InLines(n)[i])
    /\ ~IsExempt(InLines(n)[i])
    /\ tags[n][i] = "kept"

(* C15: wrap_prints.process_file takes a diagnostic without exemption pattern
   that no guard pair encloses for already wrapped only if an open-guard stands
   within the W lines before it and a close-guard within the W lines after it,
   with no other diagnostic line between that marker and the line; so a bare
   print between two wrapped triples, whose nearby markers belong to its
   neighbours, is not taken for wrapped. *)
C15_NoInterveningDiagnostic ==
    tool = "wrap_prints" =>
        \A n \in Runs : \A i \in DOMAIN tags[n] :
            LET lines == InLines(n)
            IN  (TakenForWrapped(n, i) /\ Enclosing(lines, i) = 0) =>
                    /\ \E b \in Max(1, i - W) .. (i - 1) :
                           HasOpenText(lines[b]) /\ NoDiagnosticBetween(lines, b, i)
                    /\ \E a \in (i + 1) .. Min(Len(lines), i + W) :
                           HasCloseText(lines[a]) /\ NoDiagnosticBetween(lines, i, a)

(* C16: the two windows of wrap_prints.is_already_wrapped have the same size
   W: a diagnostic without exemption pattern that has an open-guard within the
   W lines before it and a close-guard within the W lines after it, the W-th
   included, is taken for already wrapped and not wrapped again. *)
C16_SameWindows ==
    tool = "wrap_prints" =>
        \A n \in Runs : \A i \in DOMAIN tags[n] :
            LET lines == InLines(n)
            IN  ( /\ IsDiagnostic(lines[i]) /\ ~IsExempt(lines[i])
                  /\ \E b \in Max(1, i - W) .. (i - 1) : HasOpenText(lines[b])
                  /\ \E a \in (i + 1) .. Min(Len(lines), i + W) : HasCloseText(lines[a]) )
                    => tags[n][i] = "kept"

\* line i is a diagnostic whose preceding line is an open-guard and whose
\* following line is a close-guard
IsTriple(lines, i) ==
    /\ i \in DOMAIN lines
    /\ IsDiagnostic(lines[i])
    /\ i > 1 /\ HasOpenText(lines[i - 1]) /\ ~MentionsPrint(lines[i - 1])
    /\ i < Len(lines) /\ HasCloseText(lines[i + 1]) /\ ~MentionsPrint(lines[i + 1])

\* every diagnostic of the lines is the middle of a triple
AllTriples(lines) ==
    \A i \in DOMAIN lines : IsDiagnostic(lines[i]) => IsTriple(lines, i)

\* the lines the running tool would cut the output of run n into
OutLines(n) == InLines(n + 1)

(* C17: both tools take a diagnostic that stands between an open-guard line
   and a close-guard line for already wrapped: the line and its two markers go
   to the output as they are, next to each other, with no marker inserted; and
   a run on a content all of whose diagnostics stand in such triples returns
   the identical content and writes nothing. *)
C17_TripleKept ==
    \A n \in Runs :
        LET lines == InLines(n)
        IN  /\ \A i \in DOMAIN lines :
                   IsTriple(lines, i) =>
                       /\ tags[n][i] = "kept"
                       /\ \A d \in {-1, 0, 1} :
                              OutLines(n)[Landing(n, i) + d] = lines[i + d]
            /\ AllTriples(lines) =>
                   (hist[n + 1] = hist[n] /\ ~opened[n] /\ ~rets[n])

\* wrap_debug_prints ran on a content that starts with a triple and holds a
\* second one, and nothing else to wrap
C17_Witness ==
    /\ tool = "wrap_debug_prints" /\ Len(rets) >= 1
    /\ IsTriple(InLines(1), 2)
    /\ \E i \in DOMAIN InLines(1) : i > 2 /\ IsTriple(InLines(1), i)
    /\ AllTriples(InLines(1))

(* C18: running wrap_debug_prints.process_swift_file on its own output changes
   nothing: whatever the input, lines holding both 'print(' and '#if DEBUG'
   and diagnostics inside an existing guard block included, the content after
   the second run is the content after the first and the second run reports no
   change. *)
C18_SwiftIdempotent ==
    (tool = "wrap_debug_prints" /\ Len(rets) >= 2)
        => (hist[3] = hist[2] /\ ~rets[2])

\* the content holds no guard-marker text
NoGuardText(content) == CountToken(content, "#if DEBUG") + CountToken(content, "#endif") = 0

\* every line of the content ends with a newline
AllTerminated(content) == content = <<>> \/ content[Len(content)] = "\n"

(* C19: on a file with no guard-marker text whose every line is
   newline-terminated, one run of wrap_prints.process_file leaves every
   diagnostic without exemption pattern between an open-guard line and a
   close-guard line, leaves every exempt diagnostic and every other line of the
   input outside any guard, and a second run changes and writes nothing. *)
C19_FreshFileSettles ==
    (tool = "wrap_prints" /\ Len(rets) >= 1
        /\ NoGuardText(hist[1]) /\ AllTerminated(hist[1])) =>
        LET lines == LinesOf(hist[2])
        IN  /\ \A i \in DOMAIN lines :
                   IF IsDiagnostic(lines[i]) /\ ~IsExempt(lines[i])
                   THEN InTriple(lines, i) /\ Enclosing(lines, i) = 1
                   ELSE IF IsMarkerLine(lines[i]) THEN TRUE
                   ELSE ~InTriple(lines, i) /\ Enclosing(lines, i) = 0
            /\ Len(rets) >= 2 => (hist[3] = hist[2] /\ ~rets[2] /\ ~opened[2])

\* two runs on a fresh file that holds a diagnostic to wrap, an exempt
\* diagnostic and a plain line
C19_Witness ==
    /\ tool = "wrap_prints" /\ Len(rets) >= 2
    /\ NoGuardText(hist[1]) /\ AllTerminated(hist[1])
    /\ \E i, j, k \in DOMAIN LinesOf(hist[1]) :
           LET lines == LinesOf(hist[1])
           IN  /\ IsDiagnostic(lines[i]) /\ ~IsExempt(lines[i])
               /\ IsDiagnostic(lines[j]) /\ IsExempt(lines[j])
               /\ ~MentionsPrint(lines[k])
    /\ rets[1]

\* no line of the content holds an exemption pattern
NoExemption(content) == \A i \in DOMAIN content : content[i] \notin ExemptionPatterns

\* what the tool that is not running returns for a content
OtherTool(content) ==
    IF tool = "wrap_prints" THEN process_swift_file(content) ELSE process_file(content)

(* C20: on a content whose lines are all newline-terminated and hold neither
   guard-marker text nor an exemption pattern, wrap_prints.process_file and
   wrap_debug_prints.process_swift_file do the same: the same file content
   afterwards, the same returned flag, and a write by one exactly when the
   other writes. *)
C20_ToolsAgree ==
    \A n \in Runs :
        (AllTerminated(hist[n]) /\ NoGuardText(hist[n]) /\ NoExemption(hist[n])) =>
            /\ hist[n + 1] = OtherTool(hist[n]).content
            /\ rets[n] = OtherTool(hist[n]).ret
            /\ opened[n] = OtherTool(hist[n]).opened

\* a run that wrapped an indented print in such a content, next to a comment
\* that mentions print
C20_Witness ==
    /\ Len(rets) >= 1 /\ rets[1]
    /\ AllTerminated(hist[1]) /\ NoGuardText(hist[1]) /\ NoExemption(hist[1])
    /\ \E i, j \in DOMAIN LinesOf(hist[1]) :
           LET lines == LinesOf(hist[1])
           IN  /\ IsDiagnostic(lines[i]) /\ IndentOf(lines[i]) > 0
               /\ IsCommentLine(lines[j]) /\ MentionsPrint(lines[j])

-----------------------------------------------------------------------------
====
